---- MODULE Spec2Model ----
(***************************************************************************)
(* A model of the sauron virtual-DOM patch pipeline:                       *)
(*   - SkipDiff (crates/core/src/dom/application/skip_diff.rs)             *)
(*   - convert_patches / apply_dom_patches (crates/core/src/dom/           *)
(*     dom_patch.rs)                                                       *)
(*   - the diff engine and the keyed reconciler (vdom/diff.rs and          *)
(*     vdom/diff_lis.rs, described in spec.md sections 4.2 and 4.3)        *)
(* Tree paths are sequences of 0-based child indices, as in the source.    *)
(***************************************************************************)
EXTENDS Integers, Sequences, FiniteSets, TLC

VARIABLES
    \* SkipDiff::traverse
    evals,          \* the &[SkipDiff] handed to traverse
    paths,          \* the Vec<TreePath> traverse returned
    calls,          \* the positions whose decision closure was invoked, in order
    skippable,      \* what is_skippable_recursive returned for each of evals
    equal,          \* what == returned for the two SkipDiff of evals
    skPc,           \* "ready" | "traversed" | "checked" | "compared"
    \* diff, convert_patches, apply_dom_patches
    old_node,       \* the previous virtual tree
    new_node,       \* the new virtual tree
    skip,           \* the SkipDiff tree handed to diff, or NoSkip
    patches,        \* the Vec<Patch> of the batch
    dom,            \* the arena of live DomNodes, indexed by node handle
    root_node,      \* handle of the live root
    nodes_to_find,  \* the argument of the last find_all_nodes call
    nodes_lookup,   \* the IndexMap<TreePath, DomNode> it returned
    lookup_calls,   \* how many times find_all_nodes was called
    lookup_dom,     \* the live tree as it was when find_all_nodes ran
    dom_patches,    \* the DomPatch list not yet applied
    applied,        \* the DomPatches applied so far, in order: list position
                    \* and the status apply_dom_patch ended with
    new_root_node,  \* apply_dom_patches' local new_root_node (0 is None)
    pc,             \* position of the pipeline
    \* extract_simple_struct_name, Effects::map_follow_ups
    ty,             \* the type T: its module path ending in its name, and
                    \* its generic arguments
    struct_name,    \* the String extract_simple_struct_name::<T>() returned
    effects_self,   \* the Effects map_follow_ups is called on
    map_f,          \* the f handed to map_follow_ups
    mapped,         \* the Effects map_follow_ups returned
    utilPc,         \* "ready" | "extracted" | "mapped"
    \* DateTimeWidget
    date,                   \* self.date
    time,                   \* self.time
    host_element,           \* whether self.host_element is Some
    host_date_time,         \* the date_time attribute of the host element:
                            \* <<>> when not set, <<s>> when set to s
    time_change_listener,   \* self.time_change_listener, in registration order
    local_msgs,             \* the follow-ups scheduled and not yet processed
    modified,               \* <<s>> once a TimeOrDateModified(s) was processed (the last)
    parent_msg,             \* the parent messages its processing returned
    widgetPc                \* "run" while the widget lives

skipVars == <<evals, paths, calls, skippable, equal, skPc>>
pipeVars == <<old_node, new_node, skip, patches, dom, root_node, nodes_to_find,
              nodes_lookup, lookup_calls, lookup_dom, dom_patches, applied,
              new_root_node, pc>>
utilVars == <<ty, struct_name, effects_self, map_f, mapped, utilPc>>
widgetVars == <<date, time, host_element, host_date_time, time_change_listener,
                local_msgs, modified, parent_msg, widgetPc>>
vars == <<skipVars, pipeVars, utilVars, widgetVars>>

----------------------------------------------------------------------------
(* Generic helpers *)

Range(s) == { s[i] : i \in 1..Len(s) }

RECURSIVE SeqsUpTo(_, _)
\* all sequences over S of length 0..n
SeqsUpTo(S, n) ==
    IF n = 0 THEN { <<>> }
    ELSE LET shorter == SeqsUpTo(S, n - 1)
         IN  shorter \cup { Append(s, x) : s \in { t \in shorter : Len(t) = n - 1 }, x \in S }

RECURSIVE Concat(_)
\* the concatenation of a sequence of sequences
Concat(ss) == IF ss = <<>> THEN <<>> ELSE Head(ss) \o Concat(Tail(ss))

RECURSIVE PathLess(_, _)
\* depth-first pre-order on tree paths: a proper prefix comes first,
\* otherwise the first differing index decides
PathLess(p, q) ==
    IF p = <<>> THEN q # <<>>
    ELSE IF q = <<>> THEN FALSE
    ELSE IF Head(p) # Head(q) THEN Head(p) < Head(q)
    ELSE PathLess(Tail(p), Tail(q))

----------------------------------------------------------------------------
(* SkipDiff: skip_diff.rs *)

\* SkipDiff::new(val, children): the closure `move || val` is the constant val
SkipDiff_new(val, children) == [expr |-> val, children |-> children]

\* skip_if(val, children)
skip_if(val, children) == SkipDiff_new(val, children)

RECURSIVE traverse_list(_, _), traverse_recursive(_, _), traverse_list_from(_, _, _)

\* the loop of traverse_list from its i-th iteration (i is 1-based here,
\* the path index is i - 1)
traverse_list_from(evs, current, i) ==
    IF i > Len(evs) THEN [paths |-> <<>>, calls |-> <<>>]
    ELSE LET more == traverse_recursive(evs[i], Append(current, i - 1))
             rest == traverse_list_from(evs, current, i + 1)
         IN  [paths |-> more.paths \o rest.paths,
              calls |-> more.calls \o rest.calls]

traverse_list(evs, current) == traverse_list_from(evs, current, 1)

\* mutant: pushes the path when the decision is true
traverse_recursive_pushTrue(self, current) ==
    LET more == traverse_list(self.children, current)
    IN  [paths |-> (IF self.expr THEN <<current>> ELSE <<>>) \o more.paths,
         calls |-> <<current>> \o more.calls]

\* mutant: does not descend below a node whose decision is true
traverse_recursive_prune(self, current) ==
    IF self.expr THEN [paths |-> <<>>, calls |-> <<current>>]
    ELSE LET more == traverse_list(self.children, current)
         IN  [paths |-> <<current>> \o more.paths,
              calls |-> <<current>> \o more.calls]

\* traverse_recursive: (self.expr)() is invoked once, then the children
traverse_recursive(self, current) ==
    LET more == traverse_list(self.children, current)
    IN  [paths |-> (IF ~self.expr THEN <<current>> ELSE <<>>) \o more.paths,
         calls |-> <<current>> \o more.calls]

\* SkipDiff::traverse
traverse(evs) ==
    IF Len(evs) = 1 THEN traverse_recursive(evs[1], <<>>)
    ELSE traverse_list(evs, <<>>)

\* mutant: only the node's own decision is looked at
is_skippable_recursive_own(self) == self.expr

RECURSIVE is_skippable_recursive(_)
\* SkipDiff::is_skippable_recursive
is_skippable_recursive(self) ==
    self.expr /\ \A i \in 1..Len(self.children) : is_skippable_recursive(self.children[i])

\* mutant: the children are compared by their number only
SkipDiff_eq_shallow(self, other) ==
    self.expr = other.expr /\ Len(self.children) = Len(other.children)

RECURSIVE SkipDiff_eq(_, _)
\* impl PartialEq for SkipDiff: the two decisions are evaluated and
\* compared, then the children as Vec<SkipDiff>
SkipDiff_eq(self, other) ==
    /\ self.expr = other.expr
    /\ Len(self.children) = Len(other.children)
    /\ \A i \in 1..Len(self.children) : SkipDiff_eq(self.children[i], other.children[i])

----------------------------------------------------------------------------
(* Inputs of the traversal *)

MaxSkipKids == 2

SkipLeaves == { skip_if(b, <<>>) : b \in BOOLEAN }
SkipMids   == { skip_if(b, cs) : b \in BOOLEAN, cs \in SeqsUpTo(SkipLeaves, MaxSkipKids) }
SkipRoots  == { skip_if(b, cs) : b \in BOOLEAN, cs \in SeqsUpTo(SkipMids, MaxSkipKids) }
\* a single root of depth up to 2, or a list of sibling roots
SkipInputs == { <<r>> : r \in SkipRoots } \cup SeqsUpTo(SkipMids, MaxSkipKids)

----------------------------------------------------------------------------
(* Virtual tree, attributes and patches: spec.md section 3 *)

\* AttributeValue::Simple(v) and AttributeValue::Empty
Simple(v) == [kind |-> "Simple", v |-> v]
Empty == [kind |-> "Empty", v |-> 0]

\* Attribute { name, value: Vec<AttributeValue> }
attr(name, v) == [name |-> name, value |-> <<Simple(v)>>]

AttrNames == { "class", "value", "checked" }
\* the reserved stateful attribute names of spec.md section 3
Volatile == { "value", "checked", "disabled", "open" }

\* Element: tag, the reserved attributes `key` (0: no key) and `replace`,
\* the other attributes, the children
element(tag, key, replace, attrs, children) ==
    [tag |-> tag, key |-> key, replace |-> replace, attrs |-> attrs,
     children |-> children]

\* patch_type names
PatchTypes == { "InsertBeforeNode", "InsertAfterNode", "AppendChildren",
                "AddAttributes", "RemoveAttributes", "ReplaceNode", "RemoveNode",
                "ClearChildren", "MoveBeforeNode", "MoveAfterNode" }

\* Patch { tag, patch_path, patch_type }: nodes are the virtual nodes of an
\* insert, append or replace, attrs those of an attribute patch, nodes_path
\* the move sources. tag "" is None.
Patch(tag, path, type, nodes, attrs, nodes_path) ==
    [tag |-> tag, patch_path |-> path, patch_type |-> type, nodes |-> nodes,
     attrs |-> attrs, nodes_path |-> nodes_path]

\* Patch::node_paths: the move sources of a Move patch, empty otherwise
node_paths(patch) ==
    IF patch.patch_type \in { "MoveBeforeNode", "MoveAfterNode" }
    THEN patch.nodes_path ELSE <<>>

RECURSIVE last_simple(_)
\* the value a list of attribute values amounts to: the last Simple one
\* (0 when there is none)
last_simple(values) ==
    IF values = <<>> THEN 0
    ELSE LET v == values[Len(values)]
         IN  IF v.kind = "Simple" THEN v.v
             ELSE last_simple(SubSeq(values, 1, Len(values) - 1))

RECURSIVE merge_attributes_of_same_name(_)
\* Attribute::merge_attributes_of_same_name: one attribute per name, in
\* order of first occurrence, its values concatenated
merge_attributes_of_same_name(attrs) ==
    IF attrs = <<>> THEN <<>>
    ELSE LET a == Head(attrs)
             same == SelectSeq(Tail(attrs), LAMBDA b : b.name = a.name)
             others == SelectSeq(Tail(attrs), LAMBDA b : b.name # a.name)
         IN  <<[name |-> a.name,
                value |-> a.value \o Concat([i \in 1..Len(same) |-> same[i].value])]>>
             \o merge_attributes_of_same_name(others)

----------------------------------------------------------------------------
(* The live tree: an arena of DomNodes addressed by handle. Handle 1 is    *)
(* the mount node, the parent of the root.                                 *)

MountTag == "#mount"
FragmentTag == "#fragment"
NoAttrs == [n \in AttrNames |-> 0]

DomNode(tag, attrs) == [tag |-> tag, attrs |-> attrs, children |-> <<>>, parent |-> 0]

Without(s, x) == SelectSeq(s, LAMBDA y : y # x)

IndexOf(s, x) == CHOOSE i \in 1..Len(s) : s[i] = x

Reverse(s) == [i \in 1..Len(s) |-> s[Len(s) + 1 - i]]

\* the node leaves the children of its parent, if it has one
Detach(d, n) ==
    IF d[n].parent = 0 THEN d
    ELSE [d EXCEPT ![d[n].parent].children = Without(@, n), ![n].parent = 0]

\* DomNode::remove_child
remove_child(d, parent, child) ==
    IF child \in Range(d[parent].children)
    THEN [d EXCEPT ![parent].children = Without(@, child), ![child].parent = 0]
    ELSE d

\* DomNode::insert_before: n becomes the sibling right before target
insert_before(d, target, n) ==
    LET d1 == Detach(d, n)
        p == d1[target].parent
        ch == d1[p].children
        k == IndexOf(ch, target)
    IN  [d1 EXCEPT ![p].children = SubSeq(ch, 1, k - 1) \o <<n>> \o SubSeq(ch, k, Len(ch)),
                   ![n].parent = p]

\* DomNode::insert_after: n becomes the sibling right after target
insert_after(d, target, n) ==
    LET d1 == Detach(d, n)
        p == d1[target].parent
        ch == d1[p].children
        k == IndexOf(ch, target)
    IN  [d1 EXCEPT ![p].children = SubSeq(ch, 1, k) \o <<n>> \o SubSeq(ch, k + 1, Len(ch)),
                   ![n].parent = p]

\* DomNode::append_child
append_child(d, target, child) ==
    LET d1 == Detach(d, child)
    IN  [d1 EXCEPT ![target].children = Append(@, child), ![child].parent = target]

\* DomNode::replace_node: the replacement takes the target's place
replace_node(d, target, replacement) ==
    LET d1 == Detach(d, replacement)
        p == d1[target].parent
        ch == d1[p].children
        k == IndexOf(ch, target)
    IN  [d1 EXCEPT ![p].children = [ch EXCEPT ![k] = replacement],
                   ![replacement].parent = p,
                   ![target].parent = 0]

\* DomNode::remove_node
remove_node(d, target) == Detach(d, target)

\* DomNode::clear_children
clear_children(d, target) ==
    [n \in 1..Len(d) |->
        IF n = target THEN [d[n] EXCEPT !.children = <<>>]
        ELSE IF d[n].parent = target THEN [d[n] EXCEPT !.parent = 0]
        ELSE d[n]]

RECURSIVE set_dom_attrs(_, _, _)
\* DomNode::set_dom_attrs: each attribute is set to the value its list
\* amounts to; an attribute without a Simple value sets nothing
set_dom_attrs(d, target, attrs) ==
    IF attrs = <<>> THEN d
    ELSE LET a == Head(attrs)
             v == last_simple(a.value)
             d1 == IF v = 0 THEN d ELSE [d EXCEPT ![target].attrs[a.name] = v]
         IN  set_dom_attrs(d1, target, Tail(attrs))

\* DomNode::remove_dom_attr
remove_dom_attr(d, target, a) == [d EXCEPT ![target].attrs[a.name] = 0]

RECURSIVE create_dom_node(_, _), create_children(_, _, _, _)
\* Program::create_dom_node(None, node): the subtree is built detached;
\* gives the arena and the handle of the new node
create_dom_node(d, node) ==
    LET id == Len(d) + 1
        made == set_dom_attrs(Append(d, DomNode(node.tag, NoAttrs)), id,
                              merge_attributes_of_same_name(node.attrs))
    IN  create_children(made, id, node.children, 1)

create_children(d, id, children, i) ==
    IF i > Len(children) THEN [dom |-> d, id |-> id]
    ELSE LET r == create_dom_node(d, children[i])
         IN  create_children(append_child(r.dom, id, r.id), id, children, i + 1)

RECURSIVE create_dom_nodes(_, _)
\* nodes.iter().map(|n| self.create_dom_node(None, n)).collect()
create_dom_nodes(d, nodes) ==
    IF nodes = <<>> THEN [dom |-> d, ids |-> <<>>]
    ELSE LET r == create_dom_node(d, Head(nodes))
             rest == create_dom_nodes(r.dom, Tail(nodes))
         IN  [dom |-> rest.dom, ids |-> <<r.id>> \o rest.ids]

\* the live materialization of a virtual tree, mounted under the mount node
Materialize(node) ==
    LET r == create_dom_node(<<DomNode(MountTag, NoAttrs)>>, node)
    IN  [dom |-> append_child(r.dom, 1, r.id), root |-> r.id]

RECURSIVE find_node(_, _, _)
\* the node a tree path leads to from a start node, 0 when there is none
find_node(d, start, path) ==
    IF path = <<>> THEN start
    ELSE IF Head(path) + 1 > Len(d[start].children) THEN 0
    ELSE find_node(d, d[start].children[Head(path) + 1], Tail(path))

\* dom_node::find_all_nodes: the paths that lead to a node, each with it
find_all_nodes(d, target_node, to_find) ==
    LET found == { to_find[i].path : i \in { j \in 1..Len(to_find) :
                        find_node(d, target_node, to_find[j].path) # 0 } }
    IN  [p \in found |-> find_node(d, target_node, p)]

RECURSIVE RenderNode(_, _)
\* what a live subtree shows: tags, attributes and child order
RenderNode(d, n) ==
    [tag |-> d[n].tag, attrs |-> d[n].attrs,
     children |-> [i \in 1..Len(d[n].children) |-> RenderNode(d, d[n].children[i])]]

RECURSIVE Shown(_)
\* what a virtual tree is to show once live
Shown(node) ==
    [tag |-> node.tag,
     attrs |-> LET m == merge_attributes_of_same_name(node.attrs)
               IN  [n \in AttrNames |->
                      IF \E i \in 1..Len(m) : m[i].name = n
                      THEN last_simple(m[CHOOSE i \in 1..Len(m) : m[i].name = n].value)
                      ELSE 0],
     children |-> [i \in 1..Len(node.children) |-> Shown(node.children[i])]]

----------------------------------------------------------------------------
(* DomPatch, convert_patches, convert_patch: dom_patch.rs *)

\* DomPatch { patch_path, target_element, patch_variant }; idx is the
\* position of the patch in its list, nodes the DomNodes of the variant
\* (nodes, children, replacement or for_moving), attrs its DomAttrs
DomPatch(idx, patch_path, target_element, variant, nodes, attrs) ==
    [idx |-> idx, patch_path |-> patch_path, target_element |-> target_element,
     patch_variant |-> variant, nodes |-> nodes, attrs |-> attrs]

\* convert_attr with convert_attr_value: Empty values are dropped
convert_attr(a) ==
    [name |-> a.name, value |-> SelectSeq(a.value, LAMBDA v : v.kind # "Empty")]

convert_attrs(attrs) == [i \in 1..Len(attrs) |-> convert_attr(attrs[i])]

\* mutant: the move-source paths are not handed to the resolver
NodesToFind_noMoveSources(ps) ==
    [i \in 1..Len(ps) |-> [path |-> ps[i].patch_path, tag |-> ps[i].tag]]

\* the nodes_to_find of convert_patches: every patch's (path, tag), then
\* every move-source path with no tag
NodesToFind(ps) ==
    [i \in 1..Len(ps) |-> [path |-> ps[i].patch_path, tag |-> ps[i].tag]]
    \o Concat([i \in 1..Len(ps) |->
                 [j \in 1..Len(node_paths(ps[i])) |->
                     [path |-> node_paths(ps[i])[j], tag |-> ""]]])

\* convert_patch: status "panic" is the failed expect on a move source
convert_patch(d, lookup, target_element, patch, idx) ==
    LET type == patch.patch_type
        path == patch.patch_path
    IN  IF type \in { "InsertBeforeNode", "InsertAfterNode", "ReplaceNode", "AppendChildren" }
        THEN LET r == create_dom_nodes(d, patch.nodes)
             IN  [status |-> "ok", dom |-> r.dom,
                  dom_patch |-> DomPatch(idx, path, target_element, type, r.ids, <<>>)]
        ELSE IF type = "AddAttributes"
        THEN [status |-> "ok", dom |-> d,
              dom_patch |-> DomPatch(idx, path, target_element, type, <<>>,
                              convert_attrs(merge_attributes_of_same_name(patch.attrs)))]
        ELSE IF type = "RemoveAttributes"
        THEN [status |-> "ok", dom |-> d,
              dom_patch |-> DomPatch(idx, path, target_element, type, <<>>,
                                     convert_attrs(patch.attrs))]
        ELSE IF type \in { "RemoveNode", "ClearChildren" }
        THEN [status |-> "ok", dom |-> d,
              dom_patch |-> DomPatch(idx, path, target_element, type, <<>>, <<>>)]
        ELSE \* MoveBeforeNode, MoveAfterNode
             IF \A j \in 1..Len(patch.nodes_path) : patch.nodes_path[j] \in DOMAIN lookup
             THEN [status |-> "ok", dom |-> d,
                   dom_patch |-> DomPatch(idx, path, target_element, type,
                                   [j \in 1..Len(patch.nodes_path) |-> lookup[patch.nodes_path[j]]],
                                   <<>>)]
             ELSE [status |-> "panic", dom |-> d,
                   dom_patch |-> DomPatch(idx, path, target_element, type, <<>>, <<>>)]

RECURSIVE convert_each_skipMissing(_, _, _, _, _)
\* mutant: a patch whose path is not in the lookup is skipped
convert_each_skipMissing(d, lookup, ps, i, acc) ==
    IF i > Len(ps) THEN [status |-> "ok", dom |-> d, dom_patches |-> acc]
    ELSE LET patch == ps[i]
         IN  IF patch.patch_path \notin DOMAIN lookup
             THEN convert_each_skipMissing(d, lookup, ps, i + 1, acc)
             ELSE LET target == lookup[patch.patch_path]
                  IN  IF patch.tag # "" /\ patch.tag # d[target].tag
                      THEN [status |-> "panic", dom |-> d, dom_patches |-> <<>>]
                      ELSE LET r == convert_patch(d, lookup, target, patch, i)
                           IN  IF r.status # "ok"
                               THEN [status |-> "panic", dom |-> r.dom, dom_patches |-> <<>>]
                               ELSE convert_each_skipMissing(r.dom, lookup, ps, i + 1,
                                                             Append(acc, r.dom_patch))

RECURSIVE convert_each_noTagCheck(_, _, _, _, _)
\* mutant: the expected tag is not compared with the target's tag
convert_each_noTagCheck(d, lookup, ps, i, acc) ==
    IF i > Len(ps) THEN [status |-> "ok", dom |-> d, dom_patches |-> acc]
    ELSE LET patch == ps[i]
         IN  IF patch.patch_path \notin DOMAIN lookup
             THEN [status |-> "panic", dom |-> d, dom_patches |-> <<>>]
             ELSE LET r == convert_patch(d, lookup, lookup[patch.patch_path], patch, i)
                  IN  IF r.status # "ok"
                      THEN [status |-> "panic", dom |-> r.dom, dom_patches |-> <<>>]
                      ELSE convert_each_noTagCheck(r.dom, lookup, ps, i + 1,
                                                   Append(acc, r.dom_patch))

RECURSIVE convert_each(_, _, _, _, _)
\* patches.iter().map(..).collect() of convert_patches from the i-th patch:
\* a patch whose path is not in the lookup (unreachable!) or whose expected
\* tag differs from the target's tag (panic!) ends the conversion
convert_each(d, lookup, ps, i, acc) ==
    IF i > Len(ps) THEN [status |-> "ok", dom |-> d, dom_patches |-> acc]
    ELSE LET patch == ps[i]
         IN  IF patch.patch_path \notin DOMAIN lookup
             THEN [status |-> "panic", dom |-> d, dom_patches |-> <<>>]
             ELSE LET target == lookup[patch.patch_path]
                  IN  IF patch.tag # "" /\ patch.tag # d[target].tag
                      THEN [status |-> "panic", dom |-> d, dom_patches |-> <<>>]
                      ELSE LET r == convert_patch(d, lookup, target, patch, i)
                           IN  IF r.status # "ok"
                               THEN [status |-> "panic", dom |-> r.dom, dom_patches |-> <<>>]
                               ELSE convert_each(r.dom, lookup, ps, i + 1,
                                                 Append(acc, r.dom_patch))

\* convert_patches(target_node, patches)
convert_patches(d, target_node, ps) ==
    LET to_find == NodesToFind(ps)
        lookup == find_all_nodes(d, target_node, to_find)
        r == convert_each(d, lookup, ps, 1, <<>>)
    IN  [status |-> r.status, dom |-> r.dom, dom_patches |-> r.dom_patches,
         nodes_to_find |-> to_find, nodes_lookup |-> lookup]

----------------------------------------------------------------------------
(* apply_dom_patch: dom_patch.rs. The result is the arena, the status     *)
(* ("ok" is Ok, "err" an Err returned, "panic" a failed expect, unwrap,    *)
(* assert or panic!) and the returned node (0 is None).                    *)

Result(d, status, ret) == [dom |-> d, status |-> status, ret |-> ret]

\* a DOM insertion or replacement relative to a node needs its parent
has_parent(d, n) == d[n].parent # 0

is_fragment(d, n) == d[n].tag = FragmentTag

RECURSIVE insert_each_before(_, _, _)
\* for n in nodes { target.insert_before(n) }
insert_each_before(d, target, nodes) ==
    IF nodes = <<>> THEN d
    ELSE insert_each_before(insert_before(d, target, Head(nodes)), target, Tail(nodes))

RECURSIVE insert_each_after(_, _, _)
\* for n in nodes { target.insert_after(n) }
insert_each_after(d, target, nodes) ==
    IF nodes = <<>> THEN d
    ELSE insert_each_after(insert_after(d, target, Head(nodes)), target, Tail(nodes))

RECURSIVE append_each(_, _, _)
\* for n in nodes { target.append_child(n) }
append_each(d, target, nodes) ==
    IF nodes = <<>> THEN d
    ELSE append_each(append_child(d, target, Head(nodes)), target, Tail(nodes))

RECURSIVE move_each_before(_, _, _, _)
\* for m in for_moving { target_parent.remove_child(m); target.insert_before(m) }
move_each_before(d, target_parent, target, for_moving) ==
    IF for_moving = <<>> THEN d
    ELSE move_each_before(
            insert_before(remove_child(d, target_parent, Head(for_moving)),
                          target, Head(for_moving)),
            target_parent, target, Tail(for_moving))

RECURSIVE move_each_after(_, _, _, _)
\* for m in for_moving { target_parent.remove_child(m); target.insert_after(m) }
move_each_after(d, target_parent, target, for_moving) ==
    IF for_moving = <<>> THEN d
    ELSE move_each_after(
            insert_after(remove_child(d, target_parent, Head(for_moving)),
                         target, Head(for_moving)),
            target_parent, target, Tail(for_moving))

RECURSIVE remove_attrs(_, _, _)
\* the loops of RemoveAttributes: an attribute is removed once for each
\* Simple value it lists
remove_attrs(d, target, attrs) ==
    IF attrs = <<>> THEN d
    ELSE LET a == Head(attrs)
             d1 == IF \E i \in 1..Len(a.value) : a.value[i].kind = "Simple"
                   THEN remove_dom_attr(d, target, a) ELSE d
         IN  remove_attrs(d1, target, Tail(attrs))

apply_InsertBeforeNode(d, dp) ==
    IF dp.nodes = <<>> THEN Result(d, "ok", 0)
    ELSE IF ~has_parent(d, dp.target_element) THEN Result(d, "panic", 0)
    ELSE Result(insert_each_before(d, dp.target_element, dp.nodes), "ok", 0)

\* mutant: the nodes are inserted after the target in list order
apply_InsertAfterNode_noRev(d, dp) ==
    IF dp.nodes = <<>> THEN Result(d, "ok", 0)
    ELSE IF ~has_parent(d, dp.target_element) THEN Result(d, "panic", 0)
    ELSE Result(insert_each_after(d, dp.target_element, dp.nodes), "ok", 0)

apply_InsertAfterNode(d, dp) ==
    IF dp.nodes = <<>> THEN Result(d, "ok", 0)
    ELSE IF ~has_parent(d, dp.target_element) THEN Result(d, "panic", 0)
    ELSE Result(insert_each_after(d, dp.target_element, Reverse(dp.nodes)), "ok", 0)

\* mutant: the first replacement node is returned whatever the patch path
apply_ReplaceNode_alwaysRet(d, dp) ==
    IF dp.nodes = <<>> THEN Result(d, "panic", 0)
    ELSE LET first_node == Head(dp.nodes)
             replacement == Tail(dp.nodes)
         IN  IF is_fragment(d, dp.target_element)
             THEN IF dp.patch_path # <<>> THEN Result(d, "panic", 0)
                  ELSE Result(append_each(d, 1, dp.nodes), "ok", first_node)
             ELSE IF ~has_parent(d, dp.target_element) THEN Result(d, "err", 0)
             ELSE Result(insert_each_after(
                             replace_node(d, dp.target_element, first_node),
                             first_node, Reverse(replacement)),
                         "ok", first_node)

apply_ReplaceNode(d, dp) ==
    IF dp.nodes = <<>> THEN Result(d, "panic", 0)   \* replacement.remove(0)
    ELSE LET first_node == Head(dp.nodes)
             replacement == Tail(dp.nodes)
             ret == IF dp.patch_path = <<>> THEN first_node ELSE 0
         IN  IF is_fragment(d, dp.target_element)
             THEN IF dp.patch_path # <<>> THEN Result(d, "panic", 0)
                  ELSE Result(append_each(d, 1, dp.nodes), "ok", ret)
             ELSE IF ~has_parent(d, dp.target_element) THEN Result(d, "err", 0)
             ELSE Result(insert_each_after(
                             replace_node(d, dp.target_element, first_node),
                             first_node, Reverse(replacement)),
                         "ok", ret)

apply_MoveBeforeNode(d, dp) ==
    IF ~has_parent(d, dp.target_element) THEN Result(d, "panic", 0)
    ELSE Result(move_each_before(d, d[dp.target_element].parent,
                                 dp.target_element, dp.nodes), "ok", 0)

apply_MoveAfterNode(d, dp) ==
    IF ~has_parent(d, dp.target_element) THEN Result(d, "ok", 0)
    ELSE Result(move_each_after(d, d[dp.target_element].parent,
                                dp.target_element, dp.nodes), "ok", 0)

\* apply_dom_patch
apply_dom_patch(d, dp) ==
    LET v == dp.patch_variant
        t == dp.target_element
    IN  CASE v = "InsertBeforeNode" -> apply_InsertBeforeNode(d, dp)
          [] v = "InsertAfterNode" -> apply_InsertAfterNode(d, dp)
          [] v = "AppendChildren" -> Result(append_each(d, t, dp.nodes), "ok", 0)
          [] v = "AddAttributes" -> Result(set_dom_attrs(d, t, dp.attrs), "ok", 0)
          [] v = "RemoveAttributes" -> Result(remove_attrs(d, t, dp.attrs), "ok", 0)
          [] v = "ReplaceNode" -> apply_ReplaceNode(d, dp)
          [] v = "RemoveNode" -> Result(remove_node(d, t), "ok", 0)
          [] v = "ClearChildren" -> Result(clear_children(d, t), "ok", 0)
          [] v = "MoveBeforeNode" -> apply_MoveBeforeNode(d, dp)
          [] v = "MoveAfterNode" -> apply_MoveAfterNode(d, dp)

----------------------------------------------------------------------------
(* The diff engine: spec.md section 4.2 *)

\* no SkipDiff tree is supplied
NoSkip == [none |-> TRUE]

Supplied(sk) == "expr" \in DOMAIN sk

\* the decision node of the i-th new child
ChildSkip(sk, i) ==
    IF Supplied(sk) /\ i <= Len(sk.children) THEN sk.children[i] ELSE NoSkip

HasName(attrs, name) == \E i \in 1..Len(attrs) : attrs[i].name = name

ByName(attrs, name) == attrs[CHOOSE i \in 1..Len(attrs) : attrs[i].name = name]

\* mutant: every attribute of the new node is applied again, equal or not
diff_attributes_readd(old, new, path) ==
    LET mo == merge_attributes_of_same_name(old.attrs)
        mn == merge_attributes_of_same_name(new.attrs)
        remove == SelectSeq(mo, LAMBDA a : ~HasName(mn, a.name))
    IN  (IF mn = <<>> THEN <<>>
         ELSE <<Patch(old.tag, path, "AddAttributes", <<>>, mn, <<>>)>>)
        \o (IF remove = <<>> THEN <<>>
            ELSE <<Patch(old.tag, path, "RemoveAttributes", <<>>, remove, <<>>)>>)

\* step 6: the merged attribute sets are compared by name
diff_attributes(old, new, path) ==
    LET mo == merge_attributes_of_same_name(old.attrs)
        mn == merge_attributes_of_same_name(new.attrs)
        add == SelectSeq(mn, LAMBDA a :
                    \/ ~HasName(mo, a.name)
                    \/ ByName(mo, a.name).value # a.value
                    \/ a.name \in Volatile)
        remove == SelectSeq(mo, LAMBDA a : ~HasName(mn, a.name))
    IN  (IF add = <<>> THEN <<>>
         ELSE <<Patch(old.tag, path, "AddAttributes", <<>>, add, <<>>)>>)
        \o (IF remove = <<>> THEN <<>>
            ELSE <<Patch(old.tag, path, "RemoveAttributes", <<>>, remove, <<>>)>>)

\* the positions of a sequence that satisfy a test, ascending
RECURSIVE Ascending(_)
Ascending(S) ==
    IF S = {} THEN <<>>
    ELSE LET m == CHOOSE x \in S : \A y \in S : x <= y
         IN  <<m>> \o Ascending(S \ {m})

Max(S) == CHOOSE x \in S : \A y \in S : y <= x
Min(S) == CHOOSE x \in S : \A y \in S : x <= y

----------------------------------------------------------------------------
(* The keyed children reconciler: spec.md section 4.3 *)

RECURSIVE lis_from(_, _)
\* the length of the longest increasing subsequence of m that starts at i
lis_from(m, i) ==
    LET later == { j \in (i + 1)..Len(m) : m[j] > m[i] }
    IN  IF later = {} THEN 1 ELSE 1 + Max({ lis_from(m, j) : j \in later })

RECURSIVE lis_chain(_, _, _)
\* the positions of the subsequence from position i on, taking the earliest
\* position that continues a longest subsequence
lis_chain(m, len, i) ==
    IF len[i] = 1 THEN {i}
    ELSE {i} \cup lis_chain(m, len,
                Min({ j \in (i + 1)..Len(m) : m[j] > m[i] /\ len[j] = len[i] - 1 }))

\* mutant: the first element alone is taken for the subsequence
longest_increasing_subsequence_first(m) == IF m = <<>> THEN {} ELSE {1}

\* the positions of the longest increasing subsequence of m; among equally
\* long ones the earliest-starting
longest_increasing_subsequence(m) ==
    IF m = <<>> THEN {}
    ELSE LET len == [i \in 1..Len(m) |-> lis_from(m, i)]
             best == Max({ len[i] : i \in 1..Len(m) })
         IN  lis_chain(m, len, Min({ i \in 1..Len(m) : len[i] = best }))

IsKeyed(children) == \E i \in 1..Len(children) : children[i].key # 0

\* the index in old of the child with the key of new[j], 0 when there is none
OldIndex(old, new, j) ==
    IF new[j].key # 0 /\ \E i \in 1..Len(old) : old[i].key = new[j].key
    THEN CHOOSE i \in 1..Len(old) : old[i].key = new[j].key
    ELSE 0

\* the new positions whose child is matched and is in the LIS of the
\* matched old indices taken in new order
Anchors(old, new) ==
    LET matched == Ascending({ j \in 1..Len(new) : OldIndex(old, new, j) # 0 })
        m == [k \in 1..Len(matched) |-> OldIndex(old, new, matched[k])]
    IN  { matched[k] : k \in longest_increasing_subsequence(m) }

\* the removals: every old child whose key is in no new child
keyed_removals(old, new, path) ==
    LET gone == Ascending({ i \in 1..Len(old) :
                    \A j \in 1..Len(new) : OldIndex(old, new, j) # i })
    IN  [k \in 1..Len(gone) |->
            Patch(old[gone[k]].tag, Append(path, gone[k] - 1), "RemoveNode",
                  <<>>, <<>>, <<>>)]

\* the move of the matched children that are outside the LIS and stand
\* between the new positions lo and hi, relative to the anchor at new
\* position at
keyed_move(old, new, path, anchors, type, at, lo, hi) ==
    LET matched == { j \in 1..Len(new) : OldIndex(old, new, j) # 0 }
        moved == Ascending({ j \in matched \ anchors : lo < j /\ j < hi })
        oi == OldIndex(old, new, at)
    IN  IF moved = <<>> THEN <<>>
        ELSE <<Patch(old[oi].tag, Append(path, oi - 1), type, <<>>, <<>>,
                     [k \in 1..Len(moved) |->
                         Append(path, OldIndex(old, new, moved[k]) - 1)])>>

\* the moves: the matched children before the first anchor are moved before
\* it, those after an anchor are moved after it
keyed_moves(old, new, path) ==
    LET anchors == Anchors(old, new)
        asc == Ascending(anchors)
        first == asc[1]
    IN  keyed_move(old, new, path, anchors, "MoveBeforeNode", first, 0, first)
        \o Concat([k \in 1..Len(asc) |->
              keyed_move(old, new, path, anchors, "MoveAfterNode", asc[k], asc[k],
                         IF k < Len(asc) THEN asc[k + 1] ELSE Len(new) + 1)])

\* the insertion of the fresh children that stand between the new positions
\* lo and hi, relative to the surviving child at new position at
keyed_insert(old, new, path, type, at, lo, hi) ==
    LET fresh == Ascending({ j \in 1..Len(new) :
                    OldIndex(old, new, j) = 0 /\ lo < j /\ j < hi })
        oi == OldIndex(old, new, at)
    IN  IF fresh = <<>> THEN <<>>
        ELSE <<Patch(old[oi].tag, Append(path, oi - 1), type,
                     [k \in 1..Len(fresh) |-> new[fresh[k]]], <<>>, <<>>)>>

\* the inserts: the fresh children before the first surviving child are
\* inserted before it, those after a surviving child are inserted after it
keyed_inserts(old, new, path) ==
    LET surv == Ascending({ j \in 1..Len(new) : OldIndex(old, new, j) # 0 })
        first == surv[1]
    IN  keyed_insert(old, new, path, "InsertBeforeNode", first, 0, first)
        \o Concat([k \in 1..Len(surv) |->
              keyed_insert(old, new, path, "InsertAfterNode", surv[k], surv[k],
                           IF k < Len(surv) THEN surv[k + 1] ELSE Len(new) + 1)])

RECURSIVE diff_recursive(_, _, _, _)

\* keyed reconciliation of the children old and new of the element at path
diff_keyed_nodes(tag, old, new, path, sk) ==
    LET surv == Ascending({ j \in 1..Len(new) : OldIndex(old, new, j) # 0 })
    IN  IF surv = <<>>
        THEN keyed_removals(old, new, path)
             \o (IF new = <<>> THEN <<>>
                 ELSE <<Patch(tag, path, "AppendChildren", new, <<>>, <<>>)>>)
        ELSE keyed_removals(old, new, path)
             \o keyed_moves(old, new, path)
             \o keyed_inserts(old, new, path)
             \o Concat([k \in 1..Len(surv) |->
                   diff_recursive(old[OldIndex(old, new, surv[k])], new[surv[k]],
                                  Append(path, OldIndex(old, new, surv[k]) - 1),
                                  ChildSkip(sk, surv[k]))])

\* mutant: each extra new child gets a patch of its own
positional_extra_new_each(tag, old, new, path) ==
    [k \in 1..(Len(new) - Len(old)) |->
        Patch(tag, path, "AppendChildren", <<new[Len(old) + k]>>, <<>>, <<>>)]

\* step 5: the extra new children are appended by one patch
positional_extra_new(tag, old, new, path) ==
    IF Len(new) > Len(old)
    THEN <<Patch(tag, path, "AppendChildren",
                 SubSeq(new, Len(old) + 1, Len(new)), <<>>, <<>>)>>
    ELSE <<>>

\* step 5: the extra old children are removed
positional_extra_old(tag, old, new, path) ==
    IF Len(old) <= Len(new) THEN <<>>
    ELSE IF new = <<>> THEN <<Patch(tag, path, "ClearChildren", <<>>, <<>>, <<>>)>>
    ELSE [k \in 1..(Len(old) - Len(new)) |->
            Patch(old[Len(new) + k].tag, Append(path, Len(new) + k - 1),
                  "RemoveNode", <<>>, <<>>, <<>>)]

\* step 5: positional diffing of the children old and new
diff_positional(tag, old, new, path, sk) ==
    LET both == IF Len(old) < Len(new) THEN Len(old) ELSE Len(new)
    IN  Concat([i \in 1..both |->
            diff_recursive(old[i], new[i], Append(path, i - 1), ChildSkip(sk, i))])
        \o positional_extra_old(tag, old, new, path)
        \o positional_extra_new(tag, old, new, path)

\* steps 1 to 5 for the node pair at path
diff_recursive(old, new, path, sk) ==
    IF Supplied(sk) /\ sk.expr THEN <<>>
    ELSE IF old.tag # new.tag \/ new.replace
    THEN <<Patch(old.tag, path, "ReplaceNode", <<new>>, <<>>, <<>>)>>
    ELSE diff_attributes(old, new, path)
         \o (IF IsKeyed(old.children) \/ IsKeyed(new.children)
             THEN diff_keyed_nodes(old.tag, old.children, new.children, path, sk)
             ELSE diff_positional(old.tag, old.children, new.children, path, sk))

\* diff(old, new), with the SkipDiff tree when one is supplied
diff(old, new, sk) == diff_recursive(old, new, <<>>, sk)

----------------------------------------------------------------------------
(* Inputs of the pipeline *)

MaxKids == 2
MaxKeys == 5

Tags == { "div", "span" }

AttrChoices ==
    { <<>>, <<attr("class", 1)>>, <<attr("class", 2)>>,
      <<attr("class", 1), attr("class", 2)>>, <<attr("value", 1)>>,
      <<attr("class", 1), attr("checked", 1)>> }

\* single elements: tag, attributes and `replace` vary
Singles ==
    { element(t, 0, r, a, <<>>) : t \in Tags, r \in BOOLEAN, a \in AttrChoices }

Leaves == { element("a", 0, FALSE, <<>>, <<>>),
            element("a", 0, FALSE, <<attr("class", 1)>>, <<>>) }

Kids ==
    Leaves \cup { element("p", 0, FALSE, <<>>, cs) :
                    cs \in SeqsUpTo(Leaves, MaxKids) \ { <<>> } }

\* unkeyed trees of depth up to 2: a first child that may have children of
\* its own, then leaves
Nested ==
    { element("div", 0, FALSE, <<>>, cs) :
        cs \in { <<>> } \cup { <<k>> \o ls : k \in Kids,
                               ls \in SeqsUpTo(Leaves, MaxKids - 1) } }

\* an element whose number of children varies, with or without a volatile
\* attribute and `replace`
Growing ==
    { element("div", 0, r, a, [i \in 1..n |-> element("a", 0, FALSE, <<>>, <<>>)]) :
        r \in BOOLEAN, a \in { <<>>, <<attr("value", 1)>> }, n \in 0..MaxKids }

Keys == 1..MaxKeys

li(key, class) == element("li", key, FALSE, <<attr("class", class)>>, <<>>)

\* keyed children lists: distinct keys in any order
KeyOrders == { ks \in SeqsUpTo(Keys, MaxKeys) :
                 \A i, j \in 1..Len(ks) : i # j => ks[i] # ks[j] }

\* keys are only compared for equality, so the old children are taken in
\* the order 1..k; a touched new list changes the class of the child of key 1
KeyedPairs ==
    { [old |-> element("ul", 0, FALSE, <<>>, [i \in 1..k |-> li(i, 1)]),
       new |-> element("ul", 0, FALSE, <<>>,
                 [i \in 1..Len(ks) |-> li(ks[i], IF touch /\ ks[i] = 1 THEN 2 ELSE 1)])] :
        k \in 0..MaxKeys, ks \in KeyOrders, touch \in BOOLEAN }

UnkeyedPairs ==
    { [old |-> o, new |-> n] : o \in Singles, n \in Singles }
    \cup { [old |-> o, new |-> n] : o \in Nested, n \in Nested }
    \cup { [old |-> o, new |-> n] : o \in Growing, n \in Growing }

SkipChoices == { skip_if(TRUE, <<>>), skip_if(FALSE, <<skip_if(TRUE, <<>>)>>) }

Inputs ==
    { [old |-> p.old, new |-> p.new, skip |-> NoSkip] : p \in UnkeyedPairs \cup KeyedPairs }
    \cup { [old |-> p.old, new |-> p.new, skip |-> sk] :
             p \in UnkeyedPairs, sk \in SkipChoices }

----------------------------------------------------------------------------
(* The pipeline: diff, convert_patches, apply_dom_patches *)

WidgetIdle ==
    /\ date = <<>> /\ time = <<>> /\ host_element = FALSE /\ host_date_time = <<>>
    /\ time_change_listener = <<>> /\ local_msgs = <<>> /\ modified = <<>>
    /\ parent_msg = <<>> /\ widgetPc = "idle"

UtilIdle ==
    /\ ty = <<>> /\ struct_name = <<>> /\ effects_self = <<>> /\ map_f = <<>>
    /\ mapped = <<>> /\ utilPc = "idle"

SkipIdle ==
    /\ evals = <<>> /\ paths = <<>> /\ calls = <<>> /\ skippable = <<>> /\ equal = <<>>
    /\ skPc = "idle"

Init ==
    /\ SkipIdle
    /\ UtilIdle
    /\ WidgetIdle
    /\ \E in \in Inputs :
          /\ old_node = in.old
          /\ new_node = in.new
          /\ skip = in.skip
          /\ LET m == Materialize(in.old)
             IN  dom = m.dom /\ root_node = m.root
    /\ patches = <<>>
    /\ nodes_to_find = <<>>
    /\ nodes_lookup = <<>>
    /\ lookup_calls = 0
    /\ lookup_dom = <<>>
    /\ dom_patches = <<>>
    /\ applied = <<>>
    /\ new_root_node = 0
    /\ pc = "start"

\* diff(old, new) on the two snapshots
DoDiff ==
    /\ pc = "start"
    /\ patches' = diff(old_node, new_node, skip)
    /\ pc' = "diffed"
    /\ UNCHANGED <<skipVars, utilVars, widgetVars, old_node, new_node, skip, dom, root_node, nodes_to_find,
                   nodes_lookup, lookup_calls, lookup_dom, dom_patches, applied,
                   new_root_node>>

\* convert_patches(root_node, patches)
ConvertPatches ==
    /\ pc = "diffed"
    /\ LET r == convert_patches(dom, root_node, patches)
       IN  /\ dom' = r.dom
           /\ nodes_to_find' = r.nodes_to_find
           /\ nodes_lookup' = r.nodes_lookup
           /\ dom_patches' = r.dom_patches
           /\ pc' = IF r.status = "ok" THEN "converted" ELSE "panic"
    /\ lookup_calls' = lookup_calls + 1
    /\ lookup_dom' = dom
    /\ UNCHANGED <<skipVars, utilVars, widgetVars, old_node, new_node, skip, patches, root_node, applied,
                   new_root_node>>

\* mutant: an Err of apply_dom_patch is dropped and the loop goes on
apply_next_ignoreErr(d, dps, nr) ==
    LET dom_patch == Head(dps)
        r == apply_dom_patch(d, dom_patch)
    IN  [dom |-> r.dom, dom_patches |-> Tail(dps),
         applied |-> [idx |-> dom_patch.idx, status |-> r.status],
         new_root_node |-> IF r.status = "ok" /\ r.ret # 0 THEN r.ret ELSE nr,
         pc |-> IF r.status = "panic" THEN "panic" ELSE "converted"]

\* one iteration of the loop of apply_dom_patches over the list dps, with
\* new_root_node nr: the next DomPatch is applied, `?` returns its Err
apply_next(d, dps, nr) ==
    LET dom_patch == Head(dps)
        r == apply_dom_patch(d, dom_patch)
    IN  [dom |-> r.dom, dom_patches |-> Tail(dps),
         applied |-> [idx |-> dom_patch.idx, status |-> r.status],
         new_root_node |-> IF r.status = "ok" /\ r.ret # 0 THEN r.ret ELSE nr,
         pc |-> IF r.status = "ok" THEN "converted" ELSE r.status]

\* apply_dom_patches: one iteration of its loop
ApplyDomPatch ==
    /\ pc = "converted"
    /\ dom_patches # <<>>
    /\ LET r == apply_next(dom, dom_patches, new_root_node)
       IN  /\ dom' = r.dom
           /\ dom_patches' = r.dom_patches
           /\ applied' = Append(applied, r.applied)
           /\ new_root_node' = r.new_root_node
           /\ pc' = r.pc
    /\ UNCHANGED <<skipVars, utilVars, widgetVars, old_node, new_node, skip, patches, root_node, nodes_to_find,
                   nodes_lookup, lookup_calls, lookup_dom>>

\* apply_dom_patches returns Ok(new_root_node); its caller takes a returned
\* node for the root
ApplyReturn ==
    /\ pc = "converted"
    /\ dom_patches = <<>>
    /\ pc' = "done"
    /\ root_node' = IF new_root_node # 0 THEN new_root_node ELSE root_node
    /\ UNCHANGED <<skipVars, utilVars, widgetVars, old_node, new_node, skip, patches, dom, nodes_to_find,
                   nodes_lookup, lookup_calls, lookup_dom, dom_patches, applied,
                   new_root_node>>

Next == DoDiff \/ ConvertPatches \/ ApplyDomPatch \/ ApplyReturn

Spec == Init /\ [][Next]_vars

----------------------------------------------------------------------------
(* A patch batch of any make against a live tree *)

MaxBatch == 3

a_leaf(tag) == element(tag, 0, FALSE, <<>>, <<>>)

\* the live tree of the batches: <div><a/><b class=1/><c/></div>
BatchBase ==
    element("div", 0, FALSE, <<>>,
            << a_leaf("a"), element("b", 0, FALSE, <<attr("class", 1)>>, <<>>),
               a_leaf("c") >>)

BatchPatches ==
    { Patch("a", <<0>>, "RemoveNode", <<>>, <<>>, <<>>),
      Patch("a", <<0>>, "ReplaceNode", <<a_leaf("x"), a_leaf("y")>>, <<>>, <<>>),
      Patch("div", <<>>, "ReplaceNode", <<a_leaf("r"), a_leaf("s")>>, <<>>, <<>>),
      Patch("b", <<1>>, "InsertBeforeNode", <<a_leaf("x"), a_leaf("y")>>, <<>>, <<>>),
      Patch("b", <<1>>, "InsertAfterNode", <<a_leaf("x"), a_leaf("y")>>, <<>>, <<>>),
      Patch("c", <<2>>, "MoveBeforeNode", <<>>, <<>>, << <<0>>, <<1>> >>),
      Patch("a", <<0>>, "MoveAfterNode", <<>>, <<>>, << <<1>>, <<2>> >>),
      Patch("div", <<>>, "AppendChildren", <<a_leaf("x"), a_leaf("y")>>, <<>>, <<>>),
      Patch("b", <<1>>, "AddAttributes", <<>>,
            <<attr("class", 1), attr("value", 1), attr("class", 2)>>, <<>>),
      Patch("b", <<1>>, "RemoveAttributes", <<>>,
            <<attr("class", 1), attr("class", 1)>>, <<>>),
      Patch("div", <<>>, "ClearChildren", <<>>, <<>>, <<>>),
      Patch("", <<7>>, "RemoveNode", <<>>, <<>>, <<>>),
      Patch("z", <<1>>, "RemoveNode", <<>>, <<>>, <<>>),
      Patch("a", <<0>>, "MoveBeforeNode", <<>>, <<>>, << <<7>> >>) }

Batches == SeqsUpTo(BatchPatches, MaxBatch)

InitPatch ==
    /\ SkipIdle
    /\ UtilIdle
    /\ WidgetIdle
    /\ old_node = BatchBase
    /\ new_node = BatchBase
    /\ skip = NoSkip
    /\ LET m == Materialize(BatchBase)
       IN  dom = m.dom /\ root_node = m.root
    /\ patches \in Batches
    /\ nodes_to_find = <<>>
    /\ nodes_lookup = <<>>
    /\ lookup_calls = 0
    /\ lookup_dom = <<>>
    /\ dom_patches = <<>>
    /\ applied = <<>>
    /\ new_root_node = 0
    /\ pc = "diffed"

NextPatch == ConvertPatches \/ ApplyDomPatch \/ ApplyReturn

SpecPatch == InitPatch /\ [][NextPatch]_vars

----------------------------------------------------------------------------
(* SkipDiff::traverse on its own *)

PipeIdle ==
    /\ old_node = <<>> /\ new_node = <<>> /\ skip = NoSkip /\ patches = <<>>
    /\ dom = <<>> /\ root_node = 0 /\ nodes_to_find = <<>> /\ nodes_lookup = <<>>
    /\ lookup_calls = 0 /\ lookup_dom = <<>> /\ dom_patches = <<>>
    /\ applied = <<>> /\ new_root_node = 0 /\ pc = "idle"

InitSkip ==
    /\ PipeIdle
    /\ UtilIdle
    /\ WidgetIdle
    /\ evals \in SkipInputs
    /\ paths = <<>>
    /\ calls = <<>>
    /\ skippable = <<>>
    /\ equal = <<>>
    /\ skPc = "ready"

\* SkipDiff::traverse(evals)
Traverse ==
    /\ skPc = "ready"
    /\ LET r == traverse(evals)
       IN  paths' = r.paths /\ calls' = r.calls
    /\ skPc' = "traversed"
    /\ UNCHANGED <<evals, skippable, equal, pipeVars, utilVars, widgetVars>>

\* is_skippable_recursive on each SkipDiff of evals
IsSkippableRecursive ==
    /\ skPc = "ready"
    /\ skippable' = [i \in 1..Len(evals) |-> is_skippable_recursive(evals[i])]
    /\ skPc' = "checked"
    /\ UNCHANGED <<evals, paths, calls, equal, pipeVars, utilVars, widgetVars>>

NextSkip == Traverse \/ IsSkippableRecursive

SpecSkip == InitSkip /\ [][NextSkip]_vars

----------------------------------------------------------------------------
(* SkipDiff == SkipDiff on its own: evals holds the two trees compared *)

\* pairs of trees of depth up to 1, and every tree of depth up to 2 with
\* a tree built the same way
EqInputs ==
    { <<a, b>> : a \in SkipMids, b \in SkipMids } \cup { <<r, r>> : r \in SkipRoots }

InitEq ==
    /\ PipeIdle
    /\ UtilIdle
    /\ WidgetIdle
    /\ evals \in EqInputs
    /\ paths = <<>>
    /\ calls = <<>>
    /\ skippable = <<>>
    /\ equal = <<>>
    /\ skPc = "ready"

\* evals[1] == evals[2]
Eq ==
    /\ skPc = "ready"
    /\ equal' = <<SkipDiff_eq(evals[1], evals[2])>>
    /\ skPc' = "compared"
    /\ UNCHANGED <<evals, paths, calls, skippable, pipeVars, utilVars, widgetVars>>

NextEq == Eq

SpecEq == InitEq /\ [][NextEq]_vars

----------------------------------------------------------------------------
(* extract_simple_struct_name: component.rs. A string is the sequence of   *)
(* its characters.                                                         *)

RECURSIVE Join(_, _)
\* the strings joined with a separator
Join(strs, sep) ==
    IF strs = <<>> THEN <<>>
    ELSE IF Len(strs) = 1 THEN strs[1]
    ELSE strs[1] \o sep \o Join(Tail(strs), sep)

\* the module-qualified name path::to::Name
qualified(path) == Join(path, <<":", ":">>)

\* std::any::type_name::<T>(): path::to::Name, followed by the generic
\* arguments as <G1, G2, ...> when there are any
type_name_of(t) ==
    qualified(t.path)
    \o (IF t.generics = <<>> THEN <<>>
        ELSE <<"<">> \o Join(t.generics, <<",", " ">>) \o <<">">>)

\* type_name.split(['<', '>']).next(): what comes before the first '<' or '>'
split_first(str) ==
    LET at == { i \in 1..Len(str) : str[i] \in { "<", ">" } }
    IN  IF at = {} THEN str ELSE SubSeq(str, 1, Min(at) - 1)

\* name.rsplit("::").next(): what comes after the last "::"
rsplit_first(str) ==
    LET at == { i \in 1..(Len(str) - 1) : str[i] = ":" /\ str[i + 1] = ":" }
    IN  IF at = {} THEN str ELSE SubSeq(str, Max(at) + 2, Len(str))

\* mutant: the module path is cut off before the generic arguments are
extract_simple_struct_name_pathFirst(type_name) == split_first(rsplit_first(type_name))

\* extract_simple_struct_name, from the type_name on
extract_simple_struct_name(type_name) == rsplit_first(split_first(type_name))

MaxSegments == 3
MaxGenerics == 2

Idents == { <<"a">>, <<"B", "c">> }
\* module paths ending in a name
TypePaths == SeqsUpTo(Idents, MaxSegments) \ { <<>> }
\* generic arguments: a name, a module-qualified name, or one with a
\* generic argument of its own
GenericArgs ==
    { qualified(q) : q \in { r \in TypePaths : Len(r) <= 2 } }
    \cup { type_name_of([path |-> <<<<"a">>, i>>, generics |-> <<qualified(<<i, <<"a">>>>)>>])
              : i \in Idents }
Types == { [path |-> q, generics |-> g] : q \in TypePaths, g \in SeqsUpTo(GenericArgs, MaxGenerics) }

InitName ==
    /\ SkipIdle
    /\ PipeIdle
    /\ WidgetIdle
    /\ ty \in Types
    /\ struct_name = <<>>
    /\ effects_self = <<>>
    /\ map_f = <<>>
    /\ mapped = <<>>
    /\ utilPc = "ready"

\* extract_simple_struct_name::<T>()
ExtractSimpleStructName ==
    /\ utilPc = "ready"
    /\ struct_name' = extract_simple_struct_name(type_name_of(ty))
    /\ utilPc' = "extracted"
    /\ UNCHANGED <<skipVars, pipeVars, widgetVars, ty, effects_self, map_f, mapped>>

NextName == ExtractSimpleStructName

SpecName == InitName /\ [][NextName]_vars

----------------------------------------------------------------------------
(* Effects: effects.rs *)

\* Effects::new(follow_ups, effects)
Effects_new(follow_ups, effects) == [follow_ups |-> follow_ups, effects |-> effects]

\* mutant: the follow-ups are mapped back to front
map_follow_ups_reversed(self, f) ==
    Effects_new([i \in 1..Len(self.follow_ups) |->
                    f[self.follow_ups[Len(self.follow_ups) + 1 - i]]],
                self.effects)

\* Effects::map_follow_ups(self, f)
map_follow_ups(self, f) ==
    Effects_new([i \in 1..Len(self.follow_ups) |-> f[self.follow_ups[i]]], self.effects)

MaxMsgs == 2

\* the messages of the MSG, MSG2 and PMSG types
MSG == { "inc", "dec" }
MSG2 == { "Inc", "Dec" }
PMSG == { "changed", "closed" }

InitEffects ==
    /\ SkipIdle
    /\ PipeIdle
    /\ WidgetIdle
    /\ ty = <<>>
    /\ struct_name = <<>>
    /\ effects_self \in { Effects_new(fu, ef) : fu \in SeqsUpTo(MSG, MaxMsgs),
                                               ef \in SeqsUpTo(PMSG, MaxMsgs) }
    /\ map_f \in [MSG -> MSG2]
    /\ mapped = <<>>
    /\ utilPc = "ready"

\* effects.map_follow_ups(f)
MapFollowUps ==
    /\ utilPc = "ready"
    /\ mapped' = map_follow_ups(effects_self, map_f)
    /\ utilPc' = "mapped"
    /\ UNCHANGED <<skipVars, pipeVars, widgetVars, ty, struct_name, effects_self, map_f>>

NextEffects == MapFollowUps

SpecEffects == InitEffects /\ [][NextEffects]_vars

----------------------------------------------------------------------------
(* DateTimeWidget: examples/custom-element/datetime_widget/src/date_time.rs *)

\* DateTimeWidget::date_time: format!("{} {}", self.date, self.time)
date_time(d, t) == d \o <<" ">> \o t

\* listener.emit(s): the parent message the listener makes of the string
emit(listener, s) == [listener |-> listener, date_time |-> s]

MaxPending == 2
MaxListeners == 2

Dates == { <<"1">>, <<"2">> }
Times == { <<"a">>, <<"b">> }
Listeners == { "f", "g" }

\* DateTimeWidget::new(date, time) or default(), then on_date_time_change
\* for each listener
InitWidget ==
    /\ SkipIdle
    /\ PipeIdle
    /\ UtilIdle
    /\ date \in Dates \cup { <<>> }
    /\ time \in Times \cup { <<>> }
    /\ host_element = FALSE
    /\ host_date_time = <<>>
    /\ time_change_listener \in SeqsUpTo(Listeners, MaxListeners)
    /\ local_msgs = <<>>
    /\ modified = <<>>
    /\ parent_msg = <<>>
    /\ widgetPc = "run"

\* update(Msg::DateChange(d)): the follow-up TimeOrDateModified is scheduled
DateChange ==
    /\ widgetPc = "run"
    /\ Len(local_msgs) < MaxPending
    /\ \E d \in Dates :
          /\ date' = d
          /\ local_msgs' = Append(local_msgs, date_time(d, time))
    /\ UNCHANGED <<skipVars, pipeVars, utilVars, time, host_element, host_date_time,
                   time_change_listener, modified, parent_msg, widgetPc>>

\* update(Msg::TimeChange(t))
TimeChange ==
    /\ widgetPc = "run"
    /\ Len(local_msgs) < MaxPending
    /\ \E t \in Times :
          /\ time' = t
          /\ local_msgs' = Append(local_msgs, date_time(date, t))
    /\ UNCHANGED <<skipVars, pipeVars, utilVars, date, host_element, host_date_time,
                   time_change_listener, modified, parent_msg, widgetPc>>

\* update(Msg::TimeOrDateModified(s)) for the oldest follow-up scheduled
TimeOrDateModified ==
    /\ widgetPc = "run"
    /\ local_msgs # <<>>
    /\ LET s == Head(local_msgs)
       IN  /\ parent_msg' = [i \in 1..Len(time_change_listener) |->
                                emit(time_change_listener[i], date_time(date, time))]
           /\ host_date_time' = IF host_element THEN <<s>> ELSE host_date_time
           /\ modified' = <<s>>
    /\ local_msgs' = Tail(local_msgs)
    /\ UNCHANGED <<skipVars, pipeVars, utilVars, date, time, host_element,
                   time_change_listener, widgetPc>>

\* update(Msg::Mounted(..)) under a shadow root: the host element is kept
Mounted ==
    /\ widgetPc = "run"
    /\ ~host_element
    /\ host_element' = TRUE
    /\ UNCHANGED <<skipVars, pipeVars, utilVars, date, time, host_date_time,
                   time_change_listener, local_msgs, modified, parent_msg, widgetPc>>

NextWidget == DateChange \/ TimeChange \/ TimeOrDateModified \/ Mounted

SpecWidget == InitWidget /\ [][NextWidget]_vars

----------------------------------------------------------------------------
(* Properties *)

RECURSIVE AllElements(_)
\* the elements of a virtual tree
AllElements(node) ==
    { node } \cup UNION { AllElements(node.children[i]) : i \in 1..Len(node.children) }

NoVolatile(node) ==
    \A e \in AllElements(node) : \A i \in 1..Len(e.attrs) : e.attrs[i].name \notin Volatile

NoReplace(node) == \A e \in AllElements(node) : ~e.replace

\* the same element but for its children
SameElement(e, f) ==
    e.tag = f.tag /\ e.key = f.key /\ e.replace = f.replace /\ e.attrs = f.attrs

PatchesOfType(types) == { i \in 1..Len(patches) : patches[i].patch_type \in types }

\* C1: once diff(O, N) has been applied in order to the live materialization
\* of O, the live tree shows N: same tags, attributes and child order at
\* every position.
RoundTrip ==
    (pc = "done" /\ skip = NoSkip) => RenderNode(dom, root_node) = Shown(new_node)

\* C2: the patches are applied one after another in list order, each once:
\* the k-th application is that of the k-th patch, an application follows
\* only applications that ended Ok, what is left to apply is the rest of the
\* list, and the loop ends with every patch applied or at the first failure.
AppliedInListOrder ==
    /\ \A i \in 1..Len(applied) : applied[i].idx = i
    /\ \A i \in 1..(Len(applied) - 1) : applied[i].status = "ok"
    /\ pc \in { "converted", "done" } =>
          /\ \A i \in 1..Len(applied) : applied[i].status = "ok"
          /\ Len(applied) + Len(dom_patches) = Len(patches)
          /\ \A i \in 1..Len(dom_patches) : dom_patches[i].idx = Len(applied) + i
    /\ pc = "done" => Len(applied) = Len(patches)
    /\ pc = "err" => applied # <<>> /\ applied[Len(applied)].status = "err"

\* C2 witness: a patch returned an Err after two patches were applied, and
\* a later patch of the list is left unapplied
AppliedInListOrderWitness ==
    /\ pc = "err"
    /\ Len(applied) = 2
    /\ Len(patches) = 3
    /\ dom_patches # <<>>

RECURSIVE NodeAddrs(_, _)
\* the paths of a SkipDiff node at path p and of its descendants
NodeAddrs(sd, p) ==
    { p } \cup UNION { NodeAddrs(sd.children[i], Append(p, i - 1)) :
                        i \in 1..Len(sd.children) }

\* the paths of all nodes of the roots: a single root is at the empty path,
\* the i-th of several at <<i>>
Addrs(evs) ==
    IF Len(evs) = 1 THEN NodeAddrs(evs[1], <<>>)
    ELSE UNION { NodeAddrs(evs[i], <<i - 1>>) : i \in 1..Len(evs) }

RECURSIVE Descend(_, _)
Descend(sd, p) == IF p = <<>> THEN sd ELSE Descend(sd.children[Head(p) + 1], Tail(p))

\* the SkipDiff node a path addresses
NodeAt(evs, p) ==
    IF Len(evs) = 1 THEN Descend(evs[1], p) ELSE Descend(evs[Head(p) + 1], Tail(p))

StrictlyPreOrdered(ps) ==
    \A i, j \in 1..Len(ps) : i < j => PathLess(ps[i], ps[j])

EveryDecisionOnceInTreeOrder ==
    skPc = "traversed" =>
        /\ Range(calls) = Addrs(evals)
        /\ StrictlyPreOrdered(calls)

\* C4 witness: two sibling roots with children, the first root's decision true
EveryDecisionOnceInTreeOrderWitness ==
    /\ skPc = "traversed"
    /\ Len(evals) = 2
    /\ evals[1].expr
    /\ Len(evals[1].children) = 2
    /\ calls = << <<0>>, <<0, 0>>, <<0, 1>>, <<1>>, <<1, 0>> >>

IdempotentDiffOriginal ==
    (pc # "start" /\ skip = NoSkip /\ old_node = new_node /\ NoVolatile(new_node))
        => patches = <<>>

\* C6: diff(T, T) is empty for every tree T that has no volatile reserved
\* attribute and no element marked `replace`.
IdempotentDiff ==
    (pc # "start" /\ skip = NoSkip /\ old_node = new_node /\ NoVolatile(new_node)
        /\ NoReplace(new_node))
        => patches = <<>>

\* C6 witness: a tree with attributes and nested children diffed with itself
IdempotentDiffWitness ==
    /\ pc = "done"
    /\ skip = NoSkip
    /\ old_node = new_node
    /\ Len(new_node.children) = 2
    /\ new_node.children[1].tag = "p"
    /\ new_node.children[2].attrs # <<>>
    /\ patches = <<>>

KeysOf(children) == [i \in 1..Len(children) |-> children[i].key]

\* the new keyed children are the old keyed children in some order
IsKeyedPermutation(old, new) ==
    /\ old # <<>>
    /\ \A i \in 1..Len(old) : old[i].key # 0
    /\ Len(old) = Len(new)
    /\ Range(KeysOf(old)) = Range(KeysOf(new))

\* insert and remove patches appear only for keys absent from the other list
OnlyAbsentKeysInsertedOrRemoved ==
    (pc # "start" /\ skip = NoSkip /\ IsKeyed(old_node.children)
        /\ IsKeyed(new_node.children)) =>
        /\ \A i \in PatchesOfType({ "RemoveNode" }) :
              /\ Len(patches[i].patch_path) = 1
              /\ old_node.children[patches[i].patch_path[1] + 1].key
                    \notin Range(KeysOf(new_node.children))
        /\ \A i \in PatchesOfType({ "InsertBeforeNode", "InsertAfterNode", "AppendChildren" }) :
              \A k \in 1..Len(patches[i].nodes) :
                  patches[i].nodes[k].key \notin Range(KeysOf(old_node.children))

\* C7: when the new keyed children are a permutation of the old ones, only
\* move patches are emitted for them (no remove, insert, append, replace or
\* clear), and applying the patches leaves the live children in the new
\* order; insert and remove patches appear only for keys absent from the old
\* or from the new list. The children of the keyed trees are leaves, so the
\* i-th old child has the handle root_node + i.
KeyedStability ==
    /\ OnlyAbsentKeysInsertedOrRemoved
    /\ (pc = "done" /\ skip = NoSkip
          /\ IsKeyedPermutation(old_node.children, new_node.children)) =>
          /\ PatchesOfType({ "RemoveNode", "InsertBeforeNode", "InsertAfterNode",
                             "AppendChildren", "ReplaceNode", "ClearChildren" }) = {}
          /\ dom[root_node].children =
                [j \in 1..Len(new_node.children) |->
                    root_node + OldIndex(old_node.children, new_node.children, j)]

\* the length of the longest increasing subsequence of m, by enumeration
MaxIncreasing(m) ==
    Max({ Cardinality(S) : S \in { T \in SUBSET (1..Len(m)) :
                                     \A a, b \in T : a < b => m[a] < m[b] } })

\* the move sources of all move patches, as a list
MoveSources ==
    Concat([i \in 1..Len(patches) |-> node_paths(patches[i])])

\* C8: in keyed reconciliation the moved children are matched children, each
\* moved once; the matched children that are not moved keep their relative
\* order and are as many as the longest increasing subsequence of the matched
\* old indices in new order is long, so the moved ones are the matched minus
\* that length; an unmoved child that did not change is the target of no
\* changing patch. For old keys 1..5 and new keys 1,3,2,4,5 there is one
\* patch, a move of the one child 2 or 3.
LisMinimality ==
    (pc # "start" /\ skip = NoSkip /\ IsKeyed(old_node.children)
        /\ \E j \in 1..Len(new_node.children) :
              OldIndex(old_node.children, new_node.children, j) # 0) =>
        LET old == old_node.children
            new == new_node.children
            matched == { j \in 1..Len(new) : OldIndex(old, new, j) # 0 }
            m == LET asc == Ascending(matched)
                 IN  [k \in 1..Len(asc) |-> OldIndex(old, new, asc[k])]
            moved == { j \in matched : <<OldIndex(old, new, j) - 1>> \in Range(MoveSources) }
            stay == matched \ moved
        IN  /\ Range(MoveSources) \subseteq { <<OldIndex(old, new, j) - 1>> : j \in matched }
            /\ Len(MoveSources) = Cardinality(moved)
            /\ \A i, j \in stay : i < j => OldIndex(old, new, i) < OldIndex(old, new, j)
            /\ Cardinality(stay) = MaxIncreasing(m)
            /\ Cardinality(moved) = Cardinality(matched) - MaxIncreasing(m)
            /\ \A j \in stay : new[j] = old[OldIndex(old, new, j)] =>
                  \A i \in PatchesOfType({ "AddAttributes", "RemoveAttributes", "ReplaceNode",
                                           "RemoveNode", "ClearChildren", "AppendChildren" }) :
                      patches[i].patch_path # <<OldIndex(old, new, j) - 1>>
            /\ (KeysOf(old) = <<1, 2, 3, 4, 5>> /\ KeysOf(new) = <<1, 3, 2, 4, 5>>
                  /\ \A j \in 1..5 : new[j] = old[OldIndex(old, new, j)]) =>
                  /\ Len(patches) = 1
                  /\ patches[1].patch_type \in { "MoveBeforeNode", "MoveAfterNode" }
                  /\ Len(patches[1].nodes_path) = 1
                  /\ patches[1].nodes_path[1] \in { <<1>>, <<2>> }

\* C8 witness: old keys 1..5, new keys 1,3,2,4,5, diffed
LisMinimalityWitness ==
    /\ pc = "diffed"
    /\ skip = NoSkip
    /\ KeysOf(old_node.children) = <<1, 2, 3, 4, 5>>
    /\ KeysOf(new_node.children) = <<1, 3, 2, 4, 5>>
    /\ new_node.children[1] = old_node.children[1]
    /\ Len(MoveSources) = 1

\* exactly one AppendChildren patch, at the root path, with the new children
\* in order, and no insert patch
OneAppendOfAll ==
    /\ Cardinality(PatchesOfType({ "AppendChildren" })) = 1
    /\ \A i \in PatchesOfType({ "AppendChildren" }) :
          patches[i].patch_path = <<>> /\ patches[i].nodes = new_node.children
    /\ PatchesOfType({ "InsertBeforeNode", "InsertAfterNode" }) = {}

\* C9 as stated: an element without children diffed against the same
\* element with N >= 1 children gives exactly one AppendChildren patch at the
\* parent's path with the N nodes in order, and no insert patch.
AppendBoundaryOriginal ==
    (pc # "start" /\ skip = NoSkip /\ SameElement(old_node, new_node)
        /\ old_node.children = <<>> /\ new_node.children # <<>>)
        => OneAppendOfAll

\* C9: the same, for an element that is not marked `replace`.
AppendBoundary ==
    (pc # "start" /\ skip = NoSkip /\ SameElement(old_node, new_node)
        /\ old_node.children = <<>> /\ new_node.children # <<>>
        /\ ~new_node.replace)
        => OneAppendOfAll

\* C9 witness: two children appended to an element that had none
AppendBoundaryWitness ==
    /\ pc = "done"
    /\ skip = NoSkip
    /\ SameElement(old_node, new_node)
    /\ ~new_node.replace
    /\ old_node.children = <<>>
    /\ Len(new_node.children) >= 2
    /\ Len(patches) = 1
    /\ Len(dom[root_node].children) = Len(new_node.children)

\* C10: find_all_nodes is called once for the batch, with the path and tag
\* of every patch and then every move-source path; it runs on the live tree
\* before any mutation and the conversion leaves the live tree as it was;
\* every target and every move source of the DomPatches is what that lookup
\* holds for its path.
PreResolution ==
    /\ lookup_calls <= 1
    /\ pc \in { "start", "diffed" } => lookup_calls = 0 /\ applied = <<>>
    /\ pc \notin { "start", "diffed" } =>
          /\ lookup_calls = 1
          /\ Len(nodes_to_find) = Len(patches) + Len(MoveSources)
          /\ \A i \in 1..Len(patches) :
                nodes_to_find[i] = [path |-> patches[i].patch_path, tag |-> patches[i].tag]
          /\ \A p \in Range(MoveSources) : [path |-> p, tag |-> ""] \in Range(nodes_to_find)
          /\ RenderNode(lookup_dom, Materialize(old_node).root) = Shown(old_node)
          /\ \A p \in DOMAIN nodes_lookup : nodes_lookup[p] = find_node(lookup_dom, Materialize(old_node).root, p)
          /\ \A p \in { nodes_to_find[i].path : i \in 1..Len(nodes_to_find) } :
                find_node(lookup_dom, Materialize(old_node).root, p) # 0 => p \in DOMAIN nodes_lookup
          /\ \A i \in 1..Len(dom_patches) :
                LET dp == dom_patches[i]
                    patch == patches[dp.idx]
                IN  /\ dp.target_element = nodes_lookup[patch.patch_path]
                    /\ patch.patch_type \in { "MoveBeforeNode", "MoveAfterNode" } =>
                          dp.nodes = [j \in 1..Len(patch.nodes_path) |->
                                         nodes_lookup[patch.nodes_path[j]]]
    /\ (pc = "converted" /\ applied = <<>>) => RenderNode(dom, root_node) = Shown(old_node)

\* C10 witness: a batch with a move of two sources was converted and nothing
\* is applied yet
PreResolutionWitness ==
    /\ pc = "converted"
    /\ applied = <<>>
    /\ lookup_calls = 1
    /\ \E i \in 1..Len(patches) : Len(node_paths(patches[i])) = 2
    /\ Len(dom_patches) = Len(patches)

\* the paths a batch names: the path of every patch and every move source
NamedPaths ==
    { patches[i].patch_path : i \in 1..Len(patches) } \cup Range(MoveSources)

\* the conversion ended in a fault: no DomPatch list, nothing applied, and
\* the live tree shows what it showed before
FatalAndUntouched ==
    /\ pc = "panic"
    /\ dom_patches = <<>>
    /\ applied = <<>>
    /\ new_root_node = 0
    /\ RenderNode(dom, root_node) = RenderNode(lookup_dom, root_node)
    /\ RenderNode(dom, 1) = RenderNode(lookup_dom, 1)

\* C11: when the path of a patch of the batch, or a move-source path of a
\* move patch, is absent from the resolved lookup, convert_patches ends in
\* a fatal fault, returns no DomPatch list and leaves the live tree as it
\* was: no patch of the batch is applied and the faulty one is not skipped.
UnresolvablePathIsFatal ==
    (lookup_calls = 1 /\ \E p \in NamedPaths : p \notin DOMAIN nodes_lookup)
        => FatalAndUntouched

\* C11 witness: the second patch of a batch has an unresolvable path, after
\* a first patch whose nodes were created, and the batch ended in the fault
UnresolvablePathIsFatalWitness ==
    /\ pc = "panic"
    /\ Len(patches) = 3
    /\ patches[1].patch_type = "InsertBeforeNode"
    /\ patches[2].patch_path \notin DOMAIN nodes_lookup
    /\ patches[3].patch_path \in DOMAIN nodes_lookup
    /\ Len(dom) > Len(lookup_dom)
    /\ applied = <<>>

\* C12: when a patch carries an expected tag and the live node resolved for
\* its path has another tag, convert_patches ends in a fatal fault and no
\* patch of the batch is applied to the live tree.
TagMismatchIsFatal ==
    (lookup_calls = 1
        /\ \E i \in 1..Len(patches) :
              /\ patches[i].tag # ""
              /\ patches[i].patch_path \in DOMAIN nodes_lookup
              /\ lookup_dom[nodes_lookup[patches[i].patch_path]].tag # patches[i].tag)
        => FatalAndUntouched

\* C12 witness: every path of the batch resolves, the last patch expects a
\* tag the live node does not have, and the batch ended in the fault
TagMismatchIsFatalWitness ==
    /\ pc = "panic"
    /\ Len(patches) = 3
    /\ \A p \in NamedPaths : p \in DOMAIN nodes_lookup
    /\ patches[1].patch_type = "RemoveNode"
    /\ patches[1].tag = lookup_dom[nodes_lookup[patches[1].patch_path]].tag
    /\ patches[3].tag # lookup_dom[nodes_lookup[patches[3].patch_path]].tag
    /\ applied = <<>>

\* what the mutation of a DomPatch leaves behind in the live tree d
Performed(dp, d) ==
    LET v == dp.patch_variant
        t == dp.target_element
    IN  CASE v \in { "InsertBeforeNode", "InsertAfterNode", "MoveBeforeNode", "MoveAfterNode" } ->
                \A n \in Range(dp.nodes) : d[n].parent # 0 /\ d[n].parent = d[t].parent
          [] v = "AppendChildren" -> \A n \in Range(dp.nodes) : d[n].parent = t
          [] v = "AddAttributes" ->
                \A i \in 1..Len(dp.attrs) :
                    last_simple(dp.attrs[i].value) # 0 =>
                        d[t].attrs[dp.attrs[i].name] = last_simple(dp.attrs[i].value)
          [] v = "RemoveAttributes" ->
                \A i \in 1..Len(dp.attrs) :
                    last_simple(dp.attrs[i].value) # 0 => d[t].attrs[dp.attrs[i].name] = 0
          [] v = "ReplaceNode" ->
                d[t].parent = 0 /\ \A n \in Range(dp.nodes) : d[n].parent # 0
          [] v = "RemoveNode" -> d[t].parent = 0
          [] v = "ClearChildren" -> d[t].children = <<>>

\* C13: apply_dom_patch never silently skips a patch: when it returns
\* success for a DomPatch the mutation of the patch has been performed; in
\* particular a move whose target has no parent never returns success with
\* the nodes left unmoved.
NoSilentSkip ==
    [][(pc = "converted" /\ dom_patches # <<>> /\ pc' = "converted")
          => Performed(Head(dom_patches), dom')]_vars

\* no two entries of an attribute list carry the same name
DistinctNames(attrs) ==
    \A i, j \in 1..Len(attrs) : attrs[i].name = attrs[j].name => i = j

\* the AddAttributes DomPatches list every attribute name once
AddAttributesMerged ==
    \A i \in 1..Len(dom_patches) :
        dom_patches[i].patch_variant = "AddAttributes" => DistinctNames(dom_patches[i].attrs)

\* C16: an AddAttributes or a RemoveAttributes DomPatch made by
\* convert_patch never holds two entries with the same attribute name,
\* whatever duplicates the source patch lists.
AttributeMerge ==
    \A i \in 1..Len(dom_patches) :
        dom_patches[i].patch_variant \in { "AddAttributes", "RemoveAttributes" }
            => DistinctNames(dom_patches[i].attrs)

\* a patch that replaces the root
IsRootReplace(patch) == patch.patch_type = "ReplaceNode" /\ patch.patch_path = <<>>

RootChildTags ==
    LET r == RenderNode(dom, root_node)
    IN  [i \in 1..Len(r.children) |-> r.children[i].tag]

SkippableIffAllTrue ==
    skPc = "checked" =>
        /\ Len(skippable) = Len(evals)
        /\ \A i \in 1..Len(evals) :
              skippable[i] <=>
                  \A p \in NodeAddrs(evals[i], <<>>) : Descend(evals[i], p).expr

\* C14 witness: a node whose decision is true, with a false grandchild
\* only, is not skippable
SkippableIffAllTrueWitness ==
    /\ skPc = "checked"
    /\ evals = << skip_if(TRUE, << skip_if(TRUE, <<>>),
                                   skip_if(TRUE, <<skip_if(FALSE, <<>>)>>) >>) >>
    /\ skippable = <<FALSE>>

\* the positions at which two trees of the same shape decide differently
Disagreements(a, b) ==
    { p \in NodeAddrs(a, <<>>) : Descend(a, p).expr # Descend(b, p).expr }

\* C15: two SkipDiff trees are equal exactly when they have the same shape
\* and the decisions at corresponding positions evaluate to the same
\* boolean; so equality is reflexive and symmetric, and one flag changed
\* anywhere in one tree makes the two unequal.
EqualityByDecisions ==
    skPc = "compared" =>
        LET a == evals[1]
            b == evals[2]
            sameShape == NodeAddrs(a, <<>>) = NodeAddrs(b, <<>>)
        IN  /\ equal[1] <=> (sameShape /\ Disagreements(a, b) = {})
            /\ a = b => equal[1]
            /\ equal[1] = SkipDiff_eq(b, a)
            /\ (sameShape /\ Cardinality(Disagreements(a, b)) = 1) => ~equal[1]

\* C15 witness: two trees that differ in the flag of their second child
\* only are unequal
EqualityByDecisionsWitness ==
    /\ skPc = "compared"
    /\ evals[1] = skip_if(TRUE, << skip_if(FALSE, <<>>), skip_if(TRUE, <<>>) >>)
    /\ evals[2] = skip_if(TRUE, << skip_if(FALSE, <<>>), skip_if(FALSE, <<>>) >>)
    /\ equal = <<FALSE>>

\* C17: for a type name path::to::Name or path::to::Name<G1, G2, ...>, the
\* generic arguments module-qualified or not, extract_simple_struct_name
\* returns Name: no module path, no generic parameters.
BareStructName ==
    utilPc = "extracted" =>
        /\ struct_name = ty.path[Len(ty.path)]
        /\ \A i \in 1..Len(struct_name) : struct_name[i] \notin { ":", "<", ">", ",", " " }

\* C17 witness: the name was taken from a::Bc::a<a::Bc, a::a<a::a>>
BareStructNameWitness ==
    /\ utilPc = "extracted"
    /\ Len(ty.path) = 3
    /\ Len(ty.generics) = 2
    /\ type_name_of(ty) =
          << "a", ":", ":", "B", "c", ":", ":", "a", "<", "a", ":", ":", "B", "c", ",", " ",
             "a", ":", ":", "a", "<", "a", ":", ":", "a", ">", ">" >>
    /\ struct_name = <<"a">>

\* C18: map_follow_ups(f) maps the follow-ups only: the follow_ups of the
\* result are f of each original follow-up, as many and in the same order,
\* and its effects are the original effects.
MapsOnlyFollowUps ==
    utilPc = "mapped" =>
        /\ Len(mapped.follow_ups) = Len(effects_self.follow_ups)
        /\ \A i \in 1..Len(mapped.follow_ups) :
              mapped.follow_ups[i] = map_f[effects_self.follow_ups[i]]
        /\ mapped.effects = effects_self.effects

\* C18 witness: two different follow-ups mapped to different messages, two
\* effects kept
MapsOnlyFollowUpsWitness ==
    /\ utilPc = "mapped"
    /\ effects_self.follow_ups = << "inc", "dec" >>
    /\ effects_self.effects = << "closed", "changed" >>
    /\ mapped.follow_ups = << "Inc", "Dec" >>
    /\ mapped.effects = << "closed", "changed" >>

\* the moved nodes stand in list order right before (or right after) the
\* target in the live tree d, each once, and nowhere else
MovedInListOrder(dp, d) ==
    LET t == dp.target_element
        n == Len(dp.nodes)
        p == d[t].parent
    IN  /\ p # 0
        /\ LET ch == d[p].children
               k == IndexOf(ch, t)
           IN  /\ dp.patch_variant = "MoveBeforeNode" =>
                     k > n /\ SubSeq(ch, k - n, k - 1) = dp.nodes
               /\ dp.patch_variant = "MoveAfterNode" =>
                     k + n <= Len(ch) /\ SubSeq(ch, k + 1, k + n) = dp.nodes
               /\ \A m \in Range(dp.nodes) :
                     /\ Cardinality({ i \in 1..Len(ch) : ch[i] = m }) = 1
                     /\ d[m].parent = p
                     /\ \A q \in 1..Len(d) : q # p => m \notin Range(d[q].children)

\* a move DomPatch applied with success leaves its sources in list order
MoveStepKeepsOrder(variants) ==
    (pc = "converted" /\ dom_patches # <<>> /\ pc' = "converted"
        /\ Head(dom_patches).patch_variant \in variants
        /\ Head(dom_patches).nodes # <<>>)
        => MovedInListOrder(Head(dom_patches), dom')

\* the MoveBeforeNode half: the siblings read n1..nk, target
MoveBeforeKeepsListOrder == [][MoveStepKeepsOrder({ "MoveBeforeNode" })]_vars

\* C21: move patches keep list order on both sides of the target. After
\* MoveBeforeNode with sources n1..nk the siblings read n1..nk, target; after
\* MoveAfterNode target, n1..nk; each moved node has left its old position
\* and occurs exactly once among the siblings.
MovesKeepListOrder ==
    [][MoveStepKeepsOrder({ "MoveBeforeNode", "MoveAfterNode" })]_vars

OnePerListenerInOrder ==
    modified # <<>> =>
        /\ Len(parent_msg) = Len(time_change_listener)
        /\ \A i \in 1..Len(parent_msg) : parent_msg[i].listener = time_change_listener[i]

\* C23: whenever a TimeOrDateModified(s) has been processed, the string
\* handed to every registered listener is s, the string written to the
\* date_time attribute of the host element, and one parent message for
\* each registered listener is returned, in registration order.
NotificationConsistency ==
    modified # <<>> =>
        /\ OnePerListenerInOrder
        /\ \A i \in 1..Len(parent_msg) :
              /\ parent_msg[i].date_time = modified[1]
              /\ host_date_time # <<>> => parent_msg[i].date_time = host_date_time[1]

====
